---- MODULE Spec2Model ----
(***************************************************************************)
(* Gateway event serialization (apps/gateway/src/events/serialize.rs).     *)
(*                                                                         *)
(* serialize_event converts one upstream gateway event and its shard id    *)
(* into an optional GatewayEvent payload.  The module models the function  *)
(* arm by arm, the callers that invoke it concurrently, and the serde      *)
(* encoding of GatewayEvent exercised by the fixture conformance tests.    *)
(***************************************************************************)
EXTENDS Integers, Sequences, FiniteSets

VARIABLES
    call,       \* per worker: the serialize_event call it is making or has made
    fxStage,    \* fixture round trip: position in all_fixtures_round_trip_through_serde
    fxValue,    \* the fixture as loaded by load_fixture (a JSON value)
    fxEvent,    \* result of deserialize_fixture
    fxJson,     \* result of serde_json::to_string(&event)
    fxEvent2    \* result of serde_json::from_str(&json)

vars == <<call, fxStage, fxValue, fxEvent, fxJson, fxEvent2>>

(***************************************************************************)
(* Bounds of the model.                                                    *)
(***************************************************************************)
MaxShard == 1       \* shard ids 0..MaxShard
MaxMillis == 1      \* wall clock readings 0..MaxMillis (ms since the epoch)

\* the workers that call serialize_event concurrently
Workers == {"w1", "w2"}
ShardIds == 0 .. MaxShard
\* SystemTime::now().duration_since(UNIX_EPOCH).unwrap().as_millis() as u64:
\* the system clock reads at or after the epoch, so the unwrap succeeds; the
\* wall clock may go back between two calls
Millis == 0 .. MaxMillis
\* Uuid::new_v4().to_string(): a random draw, which may repeat
Uuids == {"uuid-a", "uuid-b"}

(***************************************************************************)
(* Option<T>                                                               *)
(***************************************************************************)
None == [some |-> FALSE]
Some(x) == [some |-> TRUE, val |-> x]

(***************************************************************************)
(* serde_json::Value                                                       *)
(***************************************************************************)
JNull == [t |-> "null"]
JBool(b) == [t |-> "bool", v |-> b]
JNum(n) == [t |-> "num", v |-> n]
JStr(s) == [t |-> "str", v |-> s]
JArr(s) == [t |-> "arr", v |-> s]
JObj(f) == [t |-> "obj", v |-> f]

\* json!(x) of an Option<String> / Option<bool>: None is null
JOptStr(o) == IF o.some THEN JStr(o.val) ELSE JNull
JOptBool(o) == IF o.some THEN JBool(o.val) ELSE JNull

(***************************************************************************)
(* Id<T>::to_string(): the decimal text of the snowflake                   *)
(***************************************************************************)
Digits == <<"0", "1", "2", "3", "4", "5", "6", "7", "8", "9">>

RECURSIVE IdToString(_)
IdToString(n) ==
    IF n < 10 THEN Digits[n + 1]
    ELSE IdToString(n \div 10) \o Digits[(n % 10) + 1]

\* Option<Id<T>>.map(|id| id.to_string())
MapIdToString(o) == IF o.some THEN Some(IdToString(o.val)) ELSE None

(***************************************************************************)
(* Upstream events (twilight_model::gateway::event::Event)                 *)
(***************************************************************************)
GuildIds == {1, 20}
UserA == [id |-> 3, name |-> "paul", discriminator |-> 1]
UserB == [id |-> 47, name |-> "chani", discriminator |-> 0]
RoleLists == {<<>>, <<5, 16>>, <<16, 5, 16>>}
Nicks == {None, Some("Nick")}

\* GuildCreate: the guild (available or unavailable) and whether
\* serde_json::to_value succeeds on it
GuildCreates ==
    { [kind |-> "GuildCreate", id |-> 1, available |-> TRUE, name |-> "Sietch",
       encodable |-> e] : e \in BOOLEAN }
    \cup
    { [kind |-> "GuildCreate", id |-> 20, available |-> FALSE, name |-> "",
       encodable |-> e] : e \in BOOLEAN }

GuildDeletes ==
    { [kind |-> "GuildDelete", id |-> g, unavailable |-> u] :
        g \in GuildIds, u \in {None, Some(TRUE)} }
    \cup
    { [kind |-> "GuildDelete", id |-> 1, unavailable |-> Some(FALSE)] }

Members ==
    { [guild_id |-> 1, user |-> UserA], [guild_id |-> 20, user |-> UserB] }

MemberAdds ==
    { [kind |-> "MemberAdd", guild_id |-> m.guild_id, user |-> m.user] : m \in Members }

MemberRemoves ==
    { [kind |-> "MemberRemove", guild_id |-> m.guild_id, user |-> m.user] : m \in Members }

MemberUpdates ==
    { [kind |-> "MemberUpdate", guild_id |-> m.guild_id, user |-> m.user,
       roles |-> r, nick |-> n] : m \in Members, r \in RoleLists, n \in Nicks }

\* InteractionType discriminants: 1 Ping, 2 ApplicationCommand
InteractionKinds == {1, 2}

\* Who an interaction is attributed to: guild_id, member (with its optional
\* user) and user are all optional on the upstream Interaction
Attributions ==
    { [guild_id |-> None, member |-> None, user |-> None],
      [guild_id |-> None, member |-> None, user |-> Some(UserB)],
      [guild_id |-> Some(20), member |-> Some([user |-> Some(UserA)]), user |-> Some(UserB)],
      [guild_id |-> Some(20), member |-> Some([user |-> None]), user |-> None] }

Interactions ==
    { [kind |-> "InteractionCreate", id |-> 9, type |-> k, token |-> "tok-secret",
       guild_id |-> a.guild_id, channel |-> c, member |-> a.member, user |-> a.user] :
        k \in InteractionKinds, c \in {None, Some([id |-> 4])}, a \in Attributions }

\* the kinds serialize_event names in its two drop arms
NamedDropKinds ==
    {"GatewayHeartbeat", "GatewayHeartbeatAck", "GatewayHello",
     "GatewayInvalidateSession", "GatewayReconnect", "Ready"}

\* some of the remaining Event variants, which reach the wildcard arm
OtherKinds == {"MessageCreate", "ChannelCreate", "GuildUpdate"}

Dropped == { [kind |-> k] : k \in NamedDropKinds \cup OtherKinds }

Events ==
    GuildCreates \cup GuildDeletes \cup MemberAdds \cup MemberRemoves
    \cup MemberUpdates \cup Interactions \cup Dropped

(***************************************************************************)
(* GatewayEvent and the arms of serialize_event                            *)
(***************************************************************************)
GatewayEventFields ==
    {"event_id", "event_type", "shard_id", "timestamp", "guild_id", "channel_id",
     "user_id", "data"}

\* mutant: the two u64 fields filled from each other's value
GatewayEventSwapped(event_id, event_type, shard_id, timestamp, guild_id, channel_id, user_id, data) ==
    [event_id |-> event_id, event_type |-> event_type, shard_id |-> timestamp,
     timestamp |-> shard_id, guild_id |-> guild_id, channel_id |-> channel_id,
     user_id |-> user_id, data |-> data]

GatewayEvent(event_id, event_type, shard_id, timestamp, guild_id, channel_id, user_id, data) ==
    [event_id |-> event_id, event_type |-> event_type, shard_id |-> shard_id,
     timestamp |-> timestamp, guild_id |-> guild_id, channel_id |-> channel_id,
     user_id |-> user_id, data |-> data]

\* serde_json::to_value(guild.as_ref()) when it succeeds: the guild object
GuildToValue(guild) ==
    IF guild.available
    THEN JObj([id |-> JStr(IdToString(guild.id)), name |-> JStr(guild.name)])
    ELSE JObj([id |-> JStr(IdToString(guild.id)), unavailable |-> JBool(TRUE)])

\* .unwrap_or_else(|e| { warn!(..); Value::Null })
GuildData(guild) ==
    IF guild.encodable THEN GuildToValue(guild) ELSE JNull

\* mutant: an encoding failure ends the call without an envelope
GuildCreateArmAborts(guild, shard_id, timestamp, uuid) ==
    IF guild.encodable
    THEN Some([event_id |-> uuid, event_type |-> "guild.join", shard_id |-> shard_id,
               timestamp |-> timestamp, guild_id |-> Some(IdToString(guild.id)),
               channel_id |-> None, user_id |-> None, data |-> GuildToValue(guild)])
    ELSE None

GuildCreateArm(guild, shard_id, timestamp, uuid) ==
    Some(GatewayEvent(uuid, "guild.join", shard_id, timestamp,
                      Some(IdToString(guild.id)), None, None, GuildData(guild)))

GuildDeleteArm(guild, shard_id, timestamp, uuid) ==
    Some(GatewayEvent(uuid, "guild.leave", shard_id, timestamp,
                      Some(IdToString(guild.id)), None, None,
                      JObj([unavailable |-> JOptBool(guild.unavailable)])))

\* mutant: the member-add arm leaves user_id out, like the guild arms
MemberAddArmWithoutUser(member, shard_id, timestamp, uuid) ==
    Some([event_id |-> uuid, event_type |-> "member.join", shard_id |-> shard_id,
          timestamp |-> timestamp, guild_id |-> Some(IdToString(member.guild_id)),
          channel_id |-> None, user_id |-> None,
          data |-> JObj([username |-> JStr(member.user.name),
                         discriminator |-> JNum(member.user.discriminator)])])

MemberAddArm(member, shard_id, timestamp, uuid) ==
    Some(GatewayEvent(uuid, "member.join", shard_id, timestamp,
                      Some(IdToString(member.guild_id)), None,
                      Some(IdToString(member.user.id)),
                      JObj([username |-> JStr(member.user.name),
                            discriminator |-> JNum(member.user.discriminator)])))

\* mutant: the member-remove arm carries the member-add name
MemberRemoveArmAsJoin(member, shard_id, timestamp, uuid) ==
    Some([event_id |-> uuid, event_type |-> "member.join", shard_id |-> shard_id,
          timestamp |-> timestamp, guild_id |-> Some(IdToString(member.guild_id)),
          channel_id |-> None, user_id |-> Some(IdToString(member.user.id)),
          data |-> JNull])

MemberRemoveArm(member, shard_id, timestamp, uuid) ==
    Some(GatewayEvent(uuid, "member.leave", shard_id, timestamp,
                      Some(IdToString(member.guild_id)), None,
                      Some(IdToString(member.user.id)), JNull))

\* mutant: the roles are collected without repetitions
RECURSIVE DedupRoles(_)
DedupRoles(roles) ==
    IF roles = <<>> THEN <<>>
    ELSE LET front == DedupRoles(SubSeq(roles, 1, Len(roles) - 1))
             last == roles[Len(roles)]
         IN  IF \E i \in DOMAIN front : front[i] = last THEN front
             ELSE Append(front, last)

RolesToStringsDeduped(roles) ==
    [i \in 1 .. Len(DedupRoles(roles)) |-> [t |-> "str", v |-> IdToString(DedupRoles(roles)[i])]]

\* member.roles.iter().map(|r| r.to_string()).collect::<Vec<_>>()
RolesToStrings(roles) ==
    [i \in 1 .. Len(roles) |-> JStr(IdToString(roles[i]))]

MemberUpdateArm(member, shard_id, timestamp, uuid) ==
    Some(GatewayEvent(uuid, "member.update", shard_id, timestamp,
                      Some(IdToString(member.guild_id)), None,
                      Some(IdToString(member.user.id)),
                      JObj([roles |-> JArr(RolesToStrings(member.roles)),
                            nick |-> JOptStr(member.nick)])))

\* Interaction::author_id(): the member's user when the interaction has a
\* member with a user, otherwise the interaction's own user
AuthorId(interaction) ==
    IF interaction.member.some /\ interaction.member.val.user.some
    THEN Some(interaction.member.val.user.val.id)
    ELSE IF interaction.user.some THEN Some(interaction.user.val.id) ELSE None

\* format!("{:?}", interaction.kind)
InteractionTypeDebug(type) ==
    CASE type = 1 -> "Ping"
      [] type = 2 -> "ApplicationCommand"

\* mutant: a missing channel becomes the id "0"
InteractionChannelIdDefaulted(interaction) ==
    IF interaction.channel.some
    THEN Some(IdToString(interaction.channel.val.id))
    ELSE Some("0")

\* interaction.channel.as_ref().map(|c| c.id.to_string())
InteractionChannelId(interaction) ==
    IF interaction.channel.some
    THEN Some(IdToString(interaction.channel.val.id))
    ELSE None

\* mutant: the token under the bare key
InteractionDataBareToken(interaction) ==
    JObj([interaction_id |-> JStr(IdToString(interaction.id)),
          interaction_type |-> JStr(InteractionTypeDebug(interaction.type)),
          token |-> JStr(interaction.token)])

InteractionData(interaction) ==
    JObj([interaction_id |-> JStr(IdToString(interaction.id)),
          interaction_type |-> JStr(InteractionTypeDebug(interaction.type)),
          interaction_token |-> JStr(interaction.token)])

InteractionCreateArm(interaction, shard_id, timestamp, uuid) ==
    Some(GatewayEvent(uuid, "interaction.create", shard_id, timestamp,
                      MapIdToString(interaction.guild_id),
                      InteractionChannelId(interaction),
                      MapIdToString(AuthorId(interaction)),
                      InteractionData(interaction)))

\* mutant: the Ready arm forwards
SerializeEventForwardsReady(event, shard_id, timestamp, uuid) ==
    CASE event.kind = "GuildCreate" -> GuildCreateArm(event, shard_id, timestamp, uuid)
      [] event.kind = "GuildDelete" -> GuildDeleteArm(event, shard_id, timestamp, uuid)
      [] event.kind = "MemberAdd" -> MemberAddArm(event, shard_id, timestamp, uuid)
      [] event.kind = "MemberRemove" -> MemberRemoveArm(event, shard_id, timestamp, uuid)
      [] event.kind = "MemberUpdate" -> MemberUpdateArm(event, shard_id, timestamp, uuid)
      [] event.kind = "InteractionCreate" ->
            InteractionCreateArm(event, shard_id, timestamp, uuid)
      [] event.kind = "Ready" ->
            Some(GatewayEvent(uuid, "ready", shard_id, timestamp, None, None, None, JNull))
      [] OTHER -> None

\* serialize_event, given the clock reading and the v4 UUID the call draws
SerializeEvent(event, shard_id, timestamp, uuid) ==
    CASE event.kind = "GuildCreate" -> GuildCreateArm(event, shard_id, timestamp, uuid)
      [] event.kind = "GuildDelete" -> GuildDeleteArm(event, shard_id, timestamp, uuid)
      [] event.kind = "MemberAdd" -> MemberAddArm(event, shard_id, timestamp, uuid)
      [] event.kind = "MemberRemove" -> MemberRemoveArm(event, shard_id, timestamp, uuid)
      [] event.kind = "MemberUpdate" -> MemberUpdateArm(event, shard_id, timestamp, uuid)
      [] event.kind = "InteractionCreate" ->
            InteractionCreateArm(event, shard_id, timestamp, uuid)
      [] event.kind \in {"GatewayHeartbeat", "GatewayHeartbeatAck", "GatewayHello",
                         "GatewayInvalidateSession", "GatewayReconnect"} -> None
      [] event.kind = "Ready" -> None
      [] OTHER -> None

(***************************************************************************)
(* Callers: each worker hands one event at a time to serialize_event       *)
(***************************************************************************)
Idle == [stage |-> "idle"]

\* a worker receives an upstream event on a shard and enters serialize_event
Receive(w) ==
    /\ call[w].stage = "idle"
    /\ \E event \in Events, shard_id \in ShardIds :
          call' = [call EXCEPT ![w] =
                     [stage |-> "called", event |-> event, shard_id |-> shard_id]]
    /\ UNCHANGED <<fxStage, fxValue, fxEvent, fxJson, fxEvent2>>

\* the call runs: it reads the system clock, draws a UUID and returns
Serialize(w) ==
    /\ call[w].stage = "called"
    /\ \E timestamp \in Millis, uuid \in Uuids :
          call' = [call EXCEPT ![w] =
                     [stage |-> "returned", event |-> call[w].event,
                      shard_id |-> call[w].shard_id,
                      result |-> SerializeEvent(call[w].event, call[w].shard_id,
                                                timestamp, uuid)]]
    /\ UNCHANGED <<fxStage, fxValue, fxEvent, fxJson, fxEvent2>>

\* Some(envelope): the caller takes the envelope for publishing
Publish(w) ==
    /\ call[w].stage = "returned"
    /\ call[w].result.some
    /\ call' = [call EXCEPT ![w] = Idle]
    /\ UNCHANGED <<fxStage, fxValue, fxEvent, fxJson, fxEvent2>>

\* None: the event is not forwarded
Discard(w) ==
    /\ call[w].stage = "returned"
    /\ ~call[w].result.some
    /\ call' = [call EXCEPT ![w] = Idle]
    /\ UNCHANGED <<fxStage, fxValue, fxEvent, fxJson, fxEvent2>>

Init ==
    /\ call = [w \in Workers |-> Idle]
    /\ fxStage = "start"
    /\ fxValue = JNull
    /\ fxEvent = None
    /\ fxJson = <<>>
    /\ fxEvent2 = None

Next ==
    \E w \in Workers :
        \/ Receive(w)
        \/ Serialize(w)
        \/ Publish(w)
        \/ Discard(w)

Spec == Init /\ [][Next]_vars

(***************************************************************************)
(* serde encoding of GatewayEvent (#[derive(Serialize, Deserialize)]) and  *)
(* the fixture round trip of the conformance tests                         *)
(***************************************************************************)
Ok(x) == [ok |-> TRUE, val |-> x]
Err == [ok |-> FALSE]

\* a String field: required, must be a JSON string
DeString(obj, key) ==
    IF key \notin DOMAIN obj THEN Err
    ELSE IF obj[key].t = "str" THEN Ok(obj[key].v) ELSE Err

\* a u64 field: required, must be a non-negative integer (the numbers of
\* the model all lie below 2^64)
DeU64(obj, key) ==
    IF key \notin DOMAIN obj THEN Err
    ELSE IF obj[key].t = "num" /\ obj[key].v >= 0 THEN Ok(obj[key].v) ELSE Err

\* an Option<String> field: a missing key and null are both None
DeOptString(obj, key) ==
    IF key \notin DOMAIN obj THEN Ok(None)
    ELSE IF obj[key].t = "null" THEN Ok(None)
    ELSE IF obj[key].t = "str" THEN Ok(Some(obj[key].v)) ELSE Err

\* a serde_json::Value field: required, any value
DeValue(obj, key) ==
    IF key \notin DOMAIN obj THEN Err ELSE Ok(obj[key])

\* the derived Deserialize of GatewayEvent over a map; unknown keys are ignored
DeserializeMap(obj) ==
    LET event_id == DeString(obj, "event_id")
        event_type == DeString(obj, "event_type")
        shard_id == DeU64(obj, "shard_id")
        timestamp == DeU64(obj, "timestamp")
        guild_id == DeOptString(obj, "guild_id")
        channel_id == DeOptString(obj, "channel_id")
        user_id == DeOptString(obj, "user_id")
        data == DeValue(obj, "data")
    IN  IF /\ event_id.ok /\ event_type.ok /\ shard_id.ok /\ timestamp.ok
           /\ guild_id.ok /\ channel_id.ok /\ user_id.ok /\ data.ok
        THEN Ok(GatewayEvent(event_id.val, event_type.val, shard_id.val,
                             timestamp.val, guild_id.val, channel_id.val,
                             user_id.val, data.val))
        ELSE Err

\* serde_json::from_value::<GatewayEvent>(value)
FromValue(value) ==
    IF value.t = "obj" THEN DeserializeMap(value.v) ELSE Err

\* mutant: shard_id written as a JSON string
ToStringShardAsText(event) ==
    << <<"event_id", JStr(event.event_id)>>,
       <<"event_type", JStr(event.event_type)>>,
       <<"shard_id", JStr(IdToString(event.shard_id))>>,
       <<"timestamp", JNum(event.timestamp)>>,
       <<"guild_id", JOptStr(event.guild_id)>>,
       <<"channel_id", JOptStr(event.channel_id)>>,
       <<"user_id", JOptStr(event.user_id)>>,
       <<"data", event.data>> >>

\* serde_json::to_string(&event): the members of the JSON object text, in
\* the order the struct declares its fields; None is written as null
ToString(event) ==
    << <<"event_id", JStr(event.event_id)>>,
       <<"event_type", JStr(event.event_type)>>,
       <<"shard_id", JNum(event.shard_id)>>,
       <<"timestamp", JNum(event.timestamp)>>,
       <<"guild_id", JOptStr(event.guild_id)>>,
       <<"channel_id", JOptStr(event.channel_id)>>,
       <<"user_id", JOptStr(event.user_id)>>,
       <<"data", event.data>> >>

\* serde_json::from_str::<GatewayEvent>(&json): the members are visited in
\* text order; a field seen twice is an error
FromStr(json) ==
    LET keys == { json[i][1] : i \in DOMAIN json }
        dup == \E i, j \in DOMAIN json :
                  i # j /\ json[i][1] = json[j][1] /\ json[i][1] \in GatewayEventFields
        obj == [k \in keys |-> json[CHOOSE i \in DOMAIN json : json[i][1] = k][2]]
    IN  IF dup THEN Err ELSE DeserializeMap(obj)

\* The fixture files: JSON documents built from these members; Absent marks
\* a key the document does not have
Absent == [t |-> "absent"]

FixtureMembers ==
    [ event_id : {Absent, JStr("e-1")},
      event_type : {Absent, JStr("member.leave"), JStr("interaction.create")},
      shard_id : {JNum(0), JNum(-1), JStr("0")},
      timestamp : {JNum(1700000000)},
      guild_id : {Absent, JNull, JStr("20"), JNum(20)},
      channel_id : {Absent, JNull, JStr("4")},
      user_id : {Absent, JNull, JStr("47")},
      data : {Absent, JNull,
              JObj([interaction_id |-> JStr("9"), interaction_type |-> JStr("Ping"),
                    interaction_token |-> JStr("tok-secret")])},
      version : {Absent, JNum(1)} ]

FixtureObject(m) ==
    [k \in {k \in DOMAIN m : m[k] # Absent} |-> m[k]]

FixtureValues == { JObj(FixtureObject(m)) : m \in FixtureMembers } \cup {JArr(<<>>)}

\* load_fixture(name): the file parsed into a serde_json::Value
LoadFixture ==
    /\ fxStage = "start"
    /\ \E value \in FixtureValues : fxValue' = value
    /\ fxStage' = "loaded"
    /\ UNCHANGED <<call, fxEvent, fxJson, fxEvent2>>

\* deserialize_fixture(name): from_value, or panic
DeserializeFixture ==
    /\ fxStage = "loaded"
    /\ fxEvent' = FromValue(fxValue)
    /\ fxStage' = IF FromValue(fxValue).ok THEN "deserialized" ELSE "panicked"
    /\ UNCHANGED <<call, fxValue, fxJson, fxEvent2>>

\* serde_json::to_string(&event)
ReSerialize ==
    /\ fxStage = "deserialized"
    /\ fxJson' = ToString(fxEvent.val)
    /\ fxStage' = "reserialized"
    /\ UNCHANGED <<call, fxValue, fxEvent, fxEvent2>>

\* serde_json::from_str(&json), or panic
RoundTrip ==
    /\ fxStage = "reserialized"
    /\ fxEvent2' = FromStr(fxJson)
    /\ fxStage' = IF FromStr(fxJson).ok THEN "round_tripped" ELSE "panicked"
    /\ UNCHANGED <<call, fxValue, fxEvent, fxJson>>

\* the loop moves on to the next fixture name
NextFixture ==
    /\ fxStage = "round_tripped"
    /\ fxStage' = "start"
    /\ fxValue' = JNull
    /\ fxEvent' = None
    /\ fxJson' = <<>>
    /\ fxEvent2' = None
    /\ UNCHANGED call

NextFixtures ==
    \/ LoadFixture
    \/ DeserializeFixture
    \/ ReSerialize
    \/ RoundTrip
    \/ NextFixture

SpecFixtures == Init /\ [][NextFixtures]_vars

(***************************************************************************)
(* Properties                                                              *)
(***************************************************************************)
Returned(w) == call[w].stage = "returned"

ForwardedKinds ==
    {"GuildCreate", "GuildDelete", "MemberAdd", "MemberRemove", "MemberUpdate",
     "InteractionCreate"}

\* the documented event_type of each forwarded kind
WireName ==
    [GuildCreate |-> "guild.join", GuildDelete |-> "guild.leave",
     MemberAdd |-> "member.join", MemberRemove |-> "member.leave",
     MemberUpdate |-> "member.update", InteractionCreate |-> "interaction.create"]

\* C1: a call returns an envelope exactly when the event's kind is one of the
\* six forwarded kinds, its event_type is then the documented name of that
\* kind, and two envelopes with the same event_type come from the same kind.
C1_ForwardedKindsAndTypes ==
    /\ \A w \in Workers :
          Returned(w) =>
            /\ call[w].result.some <=> call[w].event.kind \in ForwardedKinds
            /\ call[w].result.some =>
                  call[w].result.val.event_type = WireName[call[w].event.kind]
    /\ \A w1, w2 \in Workers :
          (/\ Returned(w1) /\ Returned(w2)
           /\ call[w1].result.some /\ call[w2].result.some
           /\ call[w1].result.val.event_type = call[w2].result.val.event_type)
          => call[w1].event.kind = call[w2].event.kind

C1_Witness ==
    \E w1, w2 \in Workers :
        /\ Returned(w1) /\ call[w1].event.kind = "MemberRemove"
        /\ call[w1].result.some /\ call[w1].result.val.event_type = "member.leave"
        /\ Returned(w2) /\ call[w2].event.kind = "InteractionCreate"
        /\ call[w2].result.some /\ call[w2].result.val.event_type = "interaction.create"

\* C2: heartbeat, heartbeat-ack, hello, invalidate-session, reconnect and
\* ready events, and every other kind outside the forwarded set, return no
\* envelope, whatever the shard id.
C2_DropSet ==
    \A w \in Workers :
        (Returned(w) /\ (\/ call[w].event.kind \in NamedDropKinds
                         \/ call[w].event.kind \notin ForwardedKinds))
        => call[w].result = None

C2_Witness ==
    \E w1, w2 \in Workers :
        /\ Returned(w1) /\ call[w1].event.kind = "Ready"
        /\ call[w1].shard_id = MaxShard /\ call[w1].result = None
        /\ Returned(w2) /\ call[w2].event.kind \in OtherKinds
        /\ call[w2].shard_id = 0 /\ call[w2].result = None

C5_InteractionTokenKey ==
    \A w \in Workers :
        (Returned(w) /\ call[w].event.kind = "InteractionCreate") =>
            /\ call[w].result.some
            /\ call[w].result.val.data.t = "obj"
            /\ DOMAIN call[w].result.val.data.v =
                  {"interaction_id", "interaction_type", "interaction_token"}
            /\ "token" \notin DOMAIN call[w].result.val.data.v
            /\ call[w].result.val.data.v["interaction_token"] = JStr(call[w].event.token)

C5_Witness ==
    \E w \in Workers :
        /\ Returned(w) /\ call[w].event.kind = "InteractionCreate"
        /\ call[w].result.some
        /\ call[w].result.val.data.v["interaction_token"] = JStr("tok-secret")
        /\ call[w].result.val.data.v["interaction_id"] = JStr("9")

\* C6: in the envelopes of the guild and membership kinds guild_id is always
\* present and is the source guild id, channel_id is always absent, and
\* user_id is present (the source user id) exactly for member.join,
\* member.leave and member.update; a member.leave envelope has data null.
C6_FieldPresence ==
    \A w \in Workers :
        Returned(w) =>
            /\ call[w].event.kind \in {"GuildCreate", "GuildDelete"} =>
                  /\ call[w].result.some
                  /\ call[w].result.val.guild_id = Some(IdToString(call[w].event.id))
                  /\ call[w].event.id = 20 => call[w].result.val.guild_id.val = "20"
                  /\ call[w].result.val.channel_id = None
                  /\ call[w].result.val.user_id = None
            /\ call[w].event.kind \in {"MemberAdd", "MemberRemove", "MemberUpdate"} =>
                  /\ call[w].result.some
                  /\ call[w].result.val.guild_id =
                        Some(IdToString(call[w].event.guild_id))
                  /\ call[w].result.val.channel_id = None
                  /\ call[w].result.val.user_id =
                        Some(IdToString(call[w].event.user.id))
                  /\ call[w].event.user.id = 47 => call[w].result.val.user_id.val = "47"
            /\ call[w].event.kind = "MemberRemove" => call[w].result.val.data = JNull

C6_Witness ==
    \E w1, w2 \in Workers :
        /\ Returned(w1) /\ call[w1].event.kind = "MemberRemove"
        /\ call[w1].result.some
        /\ call[w1].result.val.guild_id = Some("20")
        /\ call[w1].result.val.user_id = Some("47")
        /\ call[w1].result.val.channel_id = None
        /\ call[w1].result.val.data = JNull
        /\ Returned(w2) /\ call[w2].event.kind = "GuildCreate"
        /\ call[w2].shard_id = 1
        /\ call[w2].result.val.guild_id = Some("1")
        /\ call[w2].result.val.user_id = None

\* C7: a fixture that deserializes into GatewayEvent is re-serialized and
\* deserialized again without failure, and the second GatewayEvent equals the
\* first in every field; an optional field the fixture leaves out or gives as
\* null is absent in both.
C7_RoundTrip ==
    /\ fxStage = "panicked" => ~fxEvent.ok
    /\ fxStage = "round_tripped" =>
          /\ fxEvent.ok /\ fxEvent2.ok
          /\ \A f \in GatewayEventFields : fxEvent2.val[f] = fxEvent.val[f]
          /\ \A f \in {"guild_id", "channel_id", "user_id"} :
                (f \notin DOMAIN fxValue.v \/ fxValue.v[f] = JNull) =>
                    (fxEvent.val[f] = None /\ fxEvent2.val[f] = None)

C7_Witness ==
    /\ fxStage = "round_tripped"
    /\ "guild_id" \notin DOMAIN fxValue.v
    /\ "channel_id" \in DOMAIN fxValue.v /\ fxValue.v["channel_id"] = JStr("4")
    /\ "user_id" \in DOMAIN fxValue.v /\ fxValue.v["user_id"] = JNull
    /\ fxEvent.val.event_type = "interaction.create"
    /\ fxEvent2.val.guild_id = None
    /\ fxEvent2.val.channel_id = Some("4")
    /\ fxEvent2.val.data.t = "obj"

C10_MemberUpdateData ==
    \A w \in Workers :
        (Returned(w) /\ call[w].event.kind = "MemberUpdate") =>
            /\ call[w].result.some
            /\ call[w].result.val.data.t = "obj"
            /\ DOMAIN call[w].result.val.data.v = {"roles", "nick"}
            /\ call[w].result.val.data.v["roles"].t = "arr"
            /\ Len(call[w].result.val.data.v["roles"].v) = Len(call[w].event.roles)
            /\ \A i \in 1 .. Len(call[w].event.roles) :
                  call[w].result.val.data.v["roles"].v[i] =
                      JStr(IdToString(call[w].event.roles[i]))
            /\ call[w].event.roles = <<16, 5, 16>> =>
                  call[w].result.val.data.v["roles"].v =
                      <<JStr("16"), JStr("5"), JStr("16")>>
            /\ call[w].result.val.data.v["nick"] =
                  (IF call[w].event.nick.some THEN JStr(call[w].event.nick.val)
                   ELSE JNull)

C10_Witness ==
    \E w1, w2 \in Workers :
        /\ Returned(w1) /\ call[w1].event.kind = "MemberUpdate"
        /\ call[w1].event.roles = <<16, 5, 16>>
        /\ call[w1].event.nick = Some("Nick")
        /\ call[w1].result.val.data =
              JObj([roles |-> JArr(<<JStr("16"), JStr("5"), JStr("16")>>),
                    nick |-> JStr("Nick")])
        /\ Returned(w2) /\ call[w2].event.kind = "MemberUpdate"
        /\ call[w2].event.roles = <<>>
        /\ call[w2].event.nick = None
        /\ call[w2].result.val.data.v["nick"] = JNull

====
